---- MODULE Spec2Model ----
(***************************************************************************)
(* Model of CoreRoot/settings.py: the Django settings module that loads    *)
(* the .env file into the process environment (load_dotenv) and then reads *)
(* its settings from os.environ with literal fallbacks.                    *)
(*                                                                         *)
(* A Python str is modelled as the sequence of its characters, so that     *)
(* str.split is computed rather than assumed.  A Python scalar held by a   *)
(* setting is a tagged record (PyStr, PyInt, PyNone), so that a str, an    *)
(* int and None are distinct values that can be compared.                  *)
(***************************************************************************)
EXTENDS Integers, Sequences, FiniteSets

VARIABLES
    environ,      \* os.environ: the process environment, key -> str
    dotenv,       \* the parsed .env file read by load_dotenv, key -> str
    pc,           \* position of the settings module: "start", "loaded", "done"
    config,       \* the module's settings (ENV, SECRET_KEY, DEBUG, ...)
    runs,         \* how many times the settings module has been executed
    changes,      \* how many times somebody else changed a source
    environ0,     \* history: os.environ when the current execution started
    dotenv0,      \* history: the .env file when the current execution started
    start,        \* history: value of changes when the current execution started
    prev,         \* history: the settings produced by the previous execution
    prevStart     \* history: value of changes when the previous execution started

vars == <<environ, dotenv, pc, config, runs, changes,
          environ0, dotenv0, start, prev, prevStart>>

-----------------------------------------------------------------------------
(* Bounds of the exploration *)

MaxChanges == 2
MaxRuns == 2

-----------------------------------------------------------------------------
(* String literals of the source, as character sequences *)

PROD == <<"P", "R", "O", "D">>
SECRET_KEY_DEFAULT ==
    <<"q", "k", "l", "+", "x", "d", "r", "8", "a", "i", "m", "p", "f", "-",
      "&", "x", "(", "m", "i", "7", ")", "d", "w", "t", "^", "-", "q", "7",
      "7", "a", "j", "i", "#", "j", "*", "d", "#", "0", "2", "-", "5", "u",
      "s", "a", "3", "2", "r", "9", "!", "y">>
ALLOWED_HOSTS_DEFAULT == <<"*">>
DATABASE_NAME_DEFAULT == <<"c", "o", "r", "e", "d", "b">>
DATABASE_USER_DEFAULT == <<"c", "o", "r", "e">>
DATABASE_PASSWORD_DEFAULT ==
    <<"w", "C", "h", "2", "9", "&", "H", "E", "&", "T", "8", "3">>
DATABASE_HOST_DEFAULT == <<"l", "o", "c", "a", "l", "h", "o", "s", "t">>
DATABASE_PORT_DEFAULT == <<"5", "4", "3", "2">>
COMMA == ","

(* Python values held by a scalar setting *)
PyStr(s) == [type |-> "str", s |-> s, n |-> 0]
PyInt(i) == [type |-> "int", s |-> <<>>, n |-> i]
PyNone == [type |-> "NoneType", s |-> <<>>, n |-> 0]

-----------------------------------------------------------------------------
(* The inputs: keys and raw values the sources may hold *)

ReadKeys ==
    {"ENV", "SECRET_KEY", "DJANGO_ALLOWED_HOSTS", "DATABASE_NAME",
     "DATABASE_USER", "DATABASE_PASSWORD", "DATABASE_HOST", "DATABASE_PORT"}

\* DEBUG is a key the module never reads; a source may hold it all the same.
Keys == ReadKeys \cup {"DEBUG"}

RawValues(k) ==
    CASE k = "ENV" -> {PROD, <<"D", "E", "V">>}
      [] k = "DJANGO_ALLOWED_HOSTS" ->
            {<<"a", ",", "b", ",", ",", "c">>, <<>>, <<"a", ",">>}
      [] k = "DATABASE_PORT" -> {<<"6", "5", "4", "3">>, <<"a", "b", "c">>}
      [] k = "DEBUG" -> {<<"T", "r", "u", "e">>}
      [] OTHER -> {<<"x">>, <<"y", "z">>}

EmptyMap == [k \in {} |-> <<>>]
Put(m, k, v) == [x \in DOMAIN m \cup {k} |-> IF x = k THEN v ELSE m[x]]
Del(m, k) == [x \in DOMAIN m \ {k} |-> m[x]]

-----------------------------------------------------------------------------
(* Library functions the module calls *)

\* dotenv.load_dotenv(), override=False: every key of the .env file that the
\* process environment does not hold yet is set in os.environ; a key that
\* os.environ already holds is left alone.  A missing file is the empty map.
load_dotenv_override(e, f) ==
    [k \in DOMAIN e \cup DOMAIN f |-> IF k \in DOMAIN f THEN f[k] ELSE e[k]]
load_dotenv_append(e, f) ==
    [k \in DOMAIN e \cup DOMAIN f |->
        IF k \in DOMAIN f
        THEN (IF k \in DOMAIN e THEN e[k] ELSE <<>>) \o f[k]
        ELSE e[k]]
load_dotenv(e, f) ==
    [k \in DOMAIN e \cup DOMAIN f |-> IF k \in DOMAIN e THEN e[k] ELSE f[k]]

\* os.environ.get(key, default) and os.getenv(key, default): the value as a
\* str when the key is set, the default otherwise.
os_environ_get_no_default(e, key, default) ==
    IF key \in DOMAIN e THEN PyStr(e[key]) ELSE PyNone
os_environ_get(e, key, default) ==
    IF key \in DOMAIN e THEN PyStr(e[key]) ELSE default

os_getenv(e, key, default) == os_environ_get(e, key, default)

\* str.split(sep) for a one-character separator: every segment between two
\* separators is kept, the empty ones too; "".split(",") is [""].
RECURSIVE str_split_drop_empty(_, _)
str_split_drop_empty(s, sep) ==
    IF \A i \in 1..Len(s) : s[i] # sep
    THEN (IF s = <<>> THEN <<>> ELSE <<s>>)
    ELSE LET i == CHOOSE j \in 1..Len(s) :
                      s[j] = sep /\ \A h \in 1..(j - 1) : s[h] # sep
             head == SubSeq(s, 1, i - 1)
         IN  (IF head = <<>> THEN <<>> ELSE <<head>>)
                 \o str_split_drop_empty(SubSeq(s, i + 1, Len(s)), sep)
RECURSIVE str_split(_, _)
str_split(s, sep) ==
    IF \A i \in 1..Len(s) : s[i] # sep
    THEN <<s>>
    ELSE LET i == CHOOSE j \in 1..Len(s) :
                      s[j] = sep /\ \A h \in 1..(j - 1) : s[h] # sep
         IN  <<SubSeq(s, 1, i - 1)>>
                 \o str_split(SubSeq(s, i + 1, Len(s)), sep)

-----------------------------------------------------------------------------
(* The settings, each as the module computes it from os.environ *)

ENV_default_prod(e) == os_environ_get(e, "ENV", PyStr(PROD))
ENV(e) == os_environ_get(e, "ENV", PyNone)

SECRET_KEY(e) == os_environ_get(e, "SECRET_KEY", PyStr(SECRET_KEY_DEFAULT))

\* DEBUG = False if ENV == "PROD" else True, ENV being the setting above
DEBUG_inverted(env) == IF env = PyStr(PROD) THEN TRUE ELSE FALSE
DEBUG(env) == IF env = PyStr(PROD) THEN FALSE ELSE TRUE

ALLOWED_HOSTS(e) ==
    str_split(os_environ_get(e, "DJANGO_ALLOWED_HOSTS",
                             PyStr(ALLOWED_HOSTS_DEFAULT)).s, COMMA)

\* int(s) of Python on the decimal strings.  The module never calls it: it
\* states what a coercion of DATABASE_PORT to an integer would give.
Digits == <<"0", "1", "2", "3", "4", "5", "6", "7", "8", "9">>
IsDecimal(s) ==
    /\ Len(s) > 0
    /\ \A i \in 1..Len(s) : \E d \in 1..Len(Digits) : Digits[d] = s[i]
DigitValue(c) == (CHOOSE d \in 1..Len(Digits) : Digits[d] = c) - 1
RECURSIVE DecimalValue(_)
DecimalValue(s) ==
    IF s = <<>> THEN 0
    ELSE 10 * DecimalValue(SubSeq(s, 1, Len(s) - 1)) + DigitValue(s[Len(s)])

\* DATABASES["default"]; the ENGINE entry is a literal and is left out
DATABASES_int_port(e) ==
    [default |->
        [NAME |-> os_getenv(e, "DATABASE_NAME", PyStr(DATABASE_NAME_DEFAULT)),
         USER |-> os_getenv(e, "DATABASE_USER", PyStr(DATABASE_USER_DEFAULT)),
         PASSWORD |-> os_getenv(e, "DATABASE_PASSWORD",
                                PyStr(DATABASE_PASSWORD_DEFAULT)),
         HOST |-> os_environ_get(e, "DATABASE_HOST",
                                 PyStr(DATABASE_HOST_DEFAULT)),
         PORT |-> LET raw == os_getenv(e, "DATABASE_PORT",
                                       PyStr(DATABASE_PORT_DEFAULT)).s
                  IN  IF IsDecimal(raw) THEN PyInt(DecimalValue(raw))
                      ELSE PyStr(DATABASE_PORT_DEFAULT)]]
DATABASES(e) ==
    [default |->
        [NAME |-> os_getenv(e, "DATABASE_NAME", PyStr(DATABASE_NAME_DEFAULT)),
         USER |-> os_getenv(e, "DATABASE_USER", PyStr(DATABASE_USER_DEFAULT)),
         PASSWORD |-> os_getenv(e, "DATABASE_PASSWORD",
                                PyStr(DATABASE_PASSWORD_DEFAULT)),
         HOST |-> os_environ_get(e, "DATABASE_HOST",
                                 PyStr(DATABASE_HOST_DEFAULT)),
         PORT |-> os_getenv(e, "DATABASE_PORT", PyStr(DATABASE_PORT_DEFAULT))]]

\* The settings the module holds once its top level has run against e
Settings(e) ==
    [ENV |-> ENV(e),
     SECRET_KEY |-> SECRET_KEY(e),
     DEBUG |-> DEBUG(ENV(e)),
     ALLOWED_HOSTS |-> ALLOWED_HOSTS(e),
     DATABASES |-> DATABASES(e)]

\* The module's names before its top level has run: nothing is bound
Unbound ==
    [ENV |-> PyNone, SECRET_KEY |-> PyNone, DEBUG |-> FALSE,
     ALLOWED_HOSTS |-> <<>>,
     DATABASES |-> [default |-> [NAME |-> PyNone, USER |-> PyNone,
                                 PASSWORD |-> PyNone, HOST |-> PyNone,
                                 PORT |-> PyNone]]]

-----------------------------------------------------------------------------
(* The state machine *)

Init ==
    /\ environ = EmptyMap
    /\ dotenv = EmptyMap
    /\ pc = "start"
    /\ config = Unbound
    /\ runs = 0
    /\ changes = 0
    /\ environ0 = EmptyMap
    /\ dotenv0 = EmptyMap
    /\ start = 0
    /\ prev = Unbound
    /\ prevStart = 0

\* Somebody else (the shell, the deployment, another module) sets or removes
\* a variable of the process environment, or edits the .env file.  The
\* settings module runs to completion once started, so this happens before
\* it starts or after it is done.
Idle == pc \in {"start", "done"}

SetEnviron(k, v) ==
    /\ Idle /\ changes < MaxChanges
    /\ (k \in DOMAIN environ => environ[k] # v)
    /\ environ' = Put(environ, k, v)
    /\ changes' = changes + 1
    /\ UNCHANGED <<dotenv, pc, config, runs, environ0, dotenv0, start, prev,
                   prevStart>>

UnsetEnviron(k) ==
    /\ Idle /\ changes < MaxChanges
    /\ k \in DOMAIN environ
    /\ environ' = Del(environ, k)
    /\ changes' = changes + 1
    /\ UNCHANGED <<dotenv, pc, config, runs, environ0, dotenv0, start, prev,
                   prevStart>>

WriteDotenv(k, v) ==
    /\ Idle /\ changes < MaxChanges
    /\ (k \in DOMAIN dotenv => dotenv[k] # v)
    /\ dotenv' = Put(dotenv, k, v)
    /\ changes' = changes + 1
    /\ UNCHANGED <<environ, pc, config, runs, environ0, dotenv0, start, prev,
                   prevStart>>

RemoveDotenv(k) ==
    /\ Idle /\ changes < MaxChanges
    /\ k \in DOMAIN dotenv
    /\ dotenv' = Del(dotenv, k)
    /\ changes' = changes + 1
    /\ UNCHANGED <<environ, pc, config, runs, environ0, dotenv0, start, prev,
                   prevStart>>

\* Lines 3-4: the module starts (a first import, or a later re-execution)
\* and load_dotenv() copies the .env file into os.environ.
LoadDotenv ==
    /\ Idle /\ runs < MaxRuns
    /\ environ' = load_dotenv(environ, dotenv)
    /\ pc' = "loaded"
    /\ runs' = runs + 1
    /\ environ0' = environ
    /\ dotenv0' = dotenv
    /\ start' = changes
    /\ prev' = config
    /\ prevStart' = start
    /\ UNCHANGED <<dotenv, config, changes>>

\* Lines 6-81: the settings are read from os.environ and bound, once per
\* execution of the module.
ReadSettings_live ==
    /\ pc \in {"loaded", "done"}
    /\ config' = Settings(environ)
    /\ pc' = "done"
    /\ UNCHANGED <<environ, dotenv, runs, changes, environ0, dotenv0, start,
                   prev, prevStart>>
ReadSettings ==
    /\ pc = "loaded"
    /\ config' = Settings(environ)
    /\ pc' = "done"
    /\ UNCHANGED <<environ, dotenv, runs, changes, environ0, dotenv0, start,
                   prev, prevStart>>

Next ==
    \/ \E k \in Keys : \E v \in RawValues(k) : SetEnviron(k, v)
    \/ \E k \in Keys : UnsetEnviron(k)
    \/ \E k \in Keys : \E v \in RawValues(k) : WriteDotenv(k, v)
    \/ \E k \in Keys : RemoveDotenv(k)
    \/ LoadDotenv
    \/ ReadSettings

Spec == Init /\ [][Next]_vars

-----------------------------------------------------------------------------
(* What the claims speak about *)

\* The setting the module derives from key k
SettingFor(k) ==
    CASE k = "ENV" -> config.ENV
      [] k = "SECRET_KEY" -> config.SECRET_KEY
      [] k = "DJANGO_ALLOWED_HOSTS" -> config.ALLOWED_HOSTS
      [] k = "DATABASE_NAME" -> config.DATABASES.default.NAME
      [] k = "DATABASE_USER" -> config.DATABASES.default.USER
      [] k = "DATABASE_PASSWORD" -> config.DATABASES.default.PASSWORD
      [] k = "DATABASE_HOST" -> config.DATABASES.default.HOST
      [] k = "DATABASE_PORT" -> config.DATABASES.default.PORT

\* The setting a raw value of key k gives
DerivedFrom(k, raw) ==
    IF k = "DJANGO_ALLOWED_HOSTS" THEN str_split(raw, COMMA) ELSE PyStr(raw)

\* The keys with a declared default, and the setting each default gives
DefaultKeys == ReadKeys \ {"ENV"}
DefaultFor(k) ==
    CASE k = "SECRET_KEY" -> PyStr(SECRET_KEY_DEFAULT)
      [] k = "DJANGO_ALLOWED_HOSTS" -> <<ALLOWED_HOSTS_DEFAULT>>
      [] k = "DATABASE_NAME" -> PyStr(DATABASE_NAME_DEFAULT)
      [] k = "DATABASE_USER" -> PyStr(DATABASE_USER_DEFAULT)
      [] k = "DATABASE_PASSWORD" -> PyStr(DATABASE_PASSWORD_DEFAULT)
      [] k = "DATABASE_HOST" -> PyStr(DATABASE_HOST_DEFAULT)
      [] k = "DATABASE_PORT" -> PyStr(DATABASE_PORT_DEFAULT)

\* The sources as they were when the current execution started: the process
\* environment is the first source, the .env file the later one.
InFirst(k) == k \in DOMAIN environ0
InLater(k) == k \in DOMAIN dotenv0
Absent(k) == ~InFirst(k) /\ ~InLater(k)
Raw(k) == IF InFirst(k) THEN environ0[k] ELSE dotenv0[k]

Resolved == pc = "done"
\* Nobody else has changed a source since the current execution started
Untouched == changes = start

RECURSIVE Join(_, _)
Join(list, sep) ==
    IF Len(list) = 0 THEN <<>>
    ELSE IF Len(list) = 1 THEN list[1]
    ELSE list[1] \o <<sep>> \o Join(Tail(list), sep)

HostsABC == <<"a", ",", "b", ",", ",", "c">>

-----------------------------------------------------------------------------
\* C1: once the settings are resolved, every key the module reads that the
\* process environment held at the start gives the setting derived from the
\* environment's value, whatever the .env file holds for it; the file's value
\* is used only for a key the environment did not hold.
C1_SourcePrecedence ==
    Resolved =>
        \A k \in ReadKeys :
            /\ InFirst(k) => SettingFor(k) = DerivedFrom(k, environ0[k])
            /\ (~InFirst(k) /\ InLater(k)) =>
                   SettingFor(k) = DerivedFrom(k, dotenv0[k])

C1_Witness ==
    /\ Resolved
    /\ \E k \in ReadKeys :
           /\ InFirst(k) /\ InLater(k)
           /\ environ0[k] # dotenv0[k]
           /\ SettingFor(k) = DerivedFrom(k, environ0[k])
           /\ SettingFor(k) # DerivedFrom(k, dotenv0[k])

\* C2: a key with a declared default that neither source holds resolves to
\* exactly its default.
C2_DefaultsOnEmptySources ==
    Resolved =>
        \A k \in DefaultKeys : Absent(k) => SettingFor(k) = DefaultFor(k)

C2_Witness ==
    /\ Resolved
    /\ environ0 = EmptyMap /\ dotenv0 = EmptyMap
    /\ \A k \in DefaultKeys : SettingFor(k) = DefaultFor(k)

\* C3: DEBUG is false exactly when the resolved ENV is "PROD"; it depends on
\* the resolved ENV alone, whatever any other key (a key DEBUG included) holds.
C3_DebugDerivedFromEnv ==
    Resolved => (config.DEBUG = FALSE <=> config.ENV = PyStr(PROD))

C3_Witness ==
    /\ Resolved
    /\ "DEBUG" \in DOMAIN environ0
    /\ config.ENV = PyStr(PROD)
    /\ config.DEBUG = FALSE

\* C4 as stated: empty segments are discarded, so the resolved list never
\* holds an empty string, "a,b,,c" gives ["a","b","c"], and an absent or
\* empty raw value gives the default list.
C4_EmptySegmentsDiscarded ==
    Resolved =>
        /\ \A i \in 1..Len(config.ALLOWED_HOSTS) : config.ALLOWED_HOSTS[i] # <<>>
        /\ (~Absent("DJANGO_ALLOWED_HOSTS") /\ Raw("DJANGO_ALLOWED_HOSTS") = HostsABC)
               => config.ALLOWED_HOSTS = <<<<"a">>, <<"b">>, <<"c">>>>
        /\ (Absent("DJANGO_ALLOWED_HOSTS") \/ Raw("DJANGO_ALLOWED_HOSTS") = <<>>)
               => config.ALLOWED_HOSTS = <<ALLOWED_HOSTS_DEFAULT>>

\* C4 amended: the raw string (the default "*" when absent) is split on
\* commas and every segment is kept, the empty ones too: the list is never
\* empty, no segment holds a comma, joining the segments with commas gives
\* the raw string back; "a,b,,c" gives ["a","b","","c"] and "" gives [""].
C4_EverySegmentKept ==
    Resolved =>
        LET raw == IF Absent("DJANGO_ALLOWED_HOSTS") THEN ALLOWED_HOSTS_DEFAULT
                   ELSE Raw("DJANGO_ALLOWED_HOSTS")
            hosts == config.ALLOWED_HOSTS
        IN  /\ Len(hosts) >= 1
            /\ \A i \in 1..Len(hosts) :
                   \A j \in 1..Len(hosts[i]) : hosts[i][j] # COMMA
            /\ Join(hosts, COMMA) = raw
            /\ raw = HostsABC => hosts = <<<<"a">>, <<"b">>, <<>>, <<"c">>>>
            /\ raw = <<>> => hosts = << <<>> >>

C4_Witness ==
    /\ Resolved
    /\ ~Absent("DJANGO_ALLOWED_HOSTS")
    /\ Raw("DJANGO_ALLOWED_HOSTS") = HostsABC
    /\ config.ALLOWED_HOSTS = <<<<"a">>, <<"b">>, <<>>, <<"c">>>>

\* C5 as stated: a decimal DATABASE_PORT resolves to the integer it denotes,
\* and an absent one to the integer the default denotes.
C5_PortIsInteger ==
    Resolved =>
        /\ (~Absent("DATABASE_PORT") /\ IsDecimal(Raw("DATABASE_PORT"))) =>
               SettingFor("DATABASE_PORT")
                   = PyInt(DecimalValue(Raw("DATABASE_PORT")))
        /\ Absent("DATABASE_PORT") =>
               SettingFor("DATABASE_PORT")
                   = PyInt(DecimalValue(DATABASE_PORT_DEFAULT))

\* C5 amended: a decimal DATABASE_PORT resolves to that raw string, a str and
\* not an integer; an absent one resolves to the string "5432".
C5_PortIsRawString ==
    Resolved =>
        /\ (~Absent("DATABASE_PORT") /\ IsDecimal(Raw("DATABASE_PORT"))) =>
               SettingFor("DATABASE_PORT") = PyStr(Raw("DATABASE_PORT"))
        /\ Absent("DATABASE_PORT") =>
               SettingFor("DATABASE_PORT") = PyStr(DATABASE_PORT_DEFAULT)

C5_Witness ==
    /\ Resolved
    /\ ~Absent("DATABASE_PORT")
    /\ Raw("DATABASE_PORT") = <<"6", "5", "4", "3">>
    /\ SettingFor("DATABASE_PORT") = PyStr(<<"6", "5", "4", "3">>)

\* C6 as stated: resolution never completes with a DATABASE_PORT that is not
\* an integer and does not denote one.
C6_NoUncoercibleValueStored ==
    Resolved =>
        \/ SettingFor("DATABASE_PORT").type = "int"
        \/ IsDecimal(SettingFor("DATABASE_PORT").s)

\* C6 amended: a DATABASE_PORT that denotes no integer does not make the
\* resolution fail: the settings can always be read once the file is loaded,
\* and the raw string is stored as it is.
C6_UncoercibleValueKept ==
    /\ pc = "loaded" => ENABLED ReadSettings
    /\ (Resolved /\ ~Absent("DATABASE_PORT") /\ ~IsDecimal(Raw("DATABASE_PORT")))
           => SettingFor("DATABASE_PORT") = PyStr(Raw("DATABASE_PORT"))

C6_Witness ==
    /\ Resolved
    /\ ~Absent("DATABASE_PORT")
    /\ Raw("DATABASE_PORT") = <<"a", "b", "c">>
    /\ SettingFor("DATABASE_PORT") = PyStr(<<"a", "b", "c">>)

\* C7 as stated: resolution never completes with ENV bound to a null value.
C7_EnvNeverNull ==
    Resolved => config.ENV # PyNone

\* C7 amended: with ENV absent from every source the resolution completes,
\* ENV is bound to None and DEBUG is true.
C7_AbsentEnvIsNone ==
    /\ pc = "loaded" => ENABLED ReadSettings
    /\ (Resolved /\ Absent("ENV")) => (config.ENV = PyNone /\ config.DEBUG = TRUE)

C7_Witness ==
    /\ Resolved
    /\ Absent("ENV")
    /\ environ0 # EmptyMap
    /\ config.ENV = PyNone
    /\ config.DEBUG = TRUE

\* C8: when the module is executed again and nobody else has changed a source
\* since the previous execution started, the settings equal the previous ones.
C8_Idempotent ==
    (Resolved /\ runs >= 2 /\ changes = prevStart) => config = prev

C8_Witness ==
    /\ Resolved /\ runs >= 2 /\ changes = prevStart
    /\ \E k \in ReadKeys : k \in DOMAIN dotenv /\ k \in DOMAIN environ
    /\ config = prev
    /\ config # Settings(EmptyMap)

\* C9: once resolved, the settings keep the values computed at resolution
\* time, whatever is done to the sources afterwards.
C9_SnapshotKept ==
    Resolved => config = Settings(load_dotenv(environ0, dotenv0))

C9_Witness ==
    /\ Resolved
    /\ changes > start
    /\ config = Settings(load_dotenv(environ0, dotenv0))
    /\ config # Settings(load_dotenv(environ, dotenv))

\* C10 as stated: after resolution both sources hold exactly what they held
\* before it started.
C10_SourcesUnchanged ==
    (Resolved /\ Untouched) => (environ = environ0 /\ dotenv = dotenv0)

\* C10 amended: resolution leaves the .env file as it was and neither
\* changes nor removes a variable the process environment held; it adds to
\* the process environment exactly the keys of the file that the environment
\* did not hold, with the file's values.
C10_OnlyAbsentKeysAdded ==
    (Resolved /\ Untouched) =>
        /\ dotenv = dotenv0
        /\ DOMAIN environ = DOMAIN environ0 \cup DOMAIN dotenv0
        /\ \A k \in DOMAIN environ0 : environ[k] = environ0[k]
        /\ \A k \in DOMAIN dotenv0 \ DOMAIN environ0 : environ[k] = dotenv0[k]

C10_Witness ==
    /\ Resolved /\ Untouched
    /\ \E k \in DOMAIN dotenv0 \ DOMAIN environ0 : environ[k] = dotenv0[k]
    /\ \E k \in DOMAIN environ0 : environ[k] = environ0[k]

====
